---- MODULE Spec2Model ----
(***************************************************************************)
(* Model of the relevance core of kaketsuken-gate (lib/utils):             *)
(* splitByDelimiters, calculateConnections and matchField.                 *)
(*                                                                         *)
(* A JavaScript string is a sequence of characters; a character is an      *)
(* atomic value.  The value undefined is the one-element sequence          *)
(* Undefined, whose element is no character of any alphabet.               *)
(***************************************************************************)
EXTENDS Integers, Sequences, FiniteSets, TLC

VARIABLES
    pc,           \* position of the operation being run
    str,          \* argument of splitByDelimiters
    fieldValue,   \* first argument of matchField
    filterValue,  \* second argument of matchField
    result,       \* value returned by the function under call
    researchers,  \* the Researcher[] that calculateConnections annotates;
                  \* in the page, the researchers state of Home
    filters,      \* the criteria passed to filterResearchers / onFilterChange
    threw,        \* whether the function under call raised a TypeError
    data,         \* loadResearchersData: the rows of the file, then the array
                  \* it is about to return
    built,        \* calculateConnections: how many records of data have had
                  \* their connections written (position of the outer forEach)
    filteredResearchers,   \* Home state: positions in researchers
    selectedResearcherId,  \* Home state
    relatedResearchers,    \* Home state: positions in researchers
    isLoading,             \* Home state
    links,                 \* NetworkVisualization: the links last built
    connectionCount,       \* NetworkVisualization: the count last shown, as
                           \* the pair of a numerator and a denominator
    multiFilters,  \* FilterPanel state
    filterModes,   \* FilterPanel state
    searchText     \* FilterPanel state

callVars == <<str, fieldValue, filterValue>>
filterVars == <<filters, threw>>
homeVars == <<data, built, filteredResearchers, selectedResearcherId, relatedResearchers,
              isLoading, links, connectionCount>>
panelVars == <<multiFilters, filterModes, searchText>>

vars == <<pc, result, researchers, callVars, filterVars, homeVars, panelVars>>

-----------------------------------------------------------------------------
(* Characters and JavaScript string primitives                              *)

Comma == ","
WideComma == "U+3001"
Space == " "
Pipe == "|"

Undefined == <<"undefined">>
NoResult == <<"none">>

\* !v for a string-or-undefined v: undefined and "" are falsy
Falsy(v) == v = Undefined \/ v = <<>>

\* the class \s of a regular expression, which is also what trim() strips
IsWhitespace(c) == c = Space

\* Array.prototype.includes
Includes(arr, v) == \E i \in DOMAIN arr : arr[i] = v

RECURSIVE TrimStart(_)
TrimStart(s) ==
    IF s # <<>> /\ IsWhitespace(Head(s)) THEN TrimStart(Tail(s)) ELSE s

RECURSIVE TrimEnd(_)
TrimEnd(s) ==
    IF s # <<>> /\ IsWhitespace(s[Len(s)])
    THEN TrimEnd(SubSeq(s, 1, Len(s) - 1))
    ELSE s

\* String.prototype.trim
Trim(s) == TrimEnd(TrimStart(s))

-----------------------------------------------------------------------------
(* splitByDelimiters                                                        *)

\* number of whitespace characters of s from position q on
RECURSIVE WhitespaceRun(_, _)
WhitespaceRun(s, q) ==
    IF q <= Len(s) /\ IsWhitespace(s[q]) THEN 1 + WhitespaceRun(s, q + 1) ELSE 0

\* the regular expression /,\s*|、/ matched at position q of s: the position
\* after the match, or 0 when it does not match there
DelimiterMatchEnd(s, q) ==
    IF s[q] = Comma THEN q + 1 + WhitespaceRun(s, q + 1)
    ELSE IF s[q] = WideComma THEN q + 1
    ELSE 0

\* String.prototype.split with that regular expression: p is the start of
\* the piece being read, q the position scanned, acc the pieces so far
RECURSIVE SplitAt(_, _, _, _)
SplitAt(s, p, q, acc) ==
    IF q > Len(s) THEN Append(acc, SubSeq(s, p, Len(s)))
    ELSE LET e == DelimiterMatchEnd(s, q)
         IN  IF e = 0 THEN SplitAt(s, p, q + 1, acc)
             ELSE SplitAt(s, e, e, Append(acc, SubSeq(s, p, q - 1)))

NotBlank(item) == Trim(item) # <<>>

\* splitByDelimiters as it would be if each retained piece were trimmed
RECURSIVE TrimEach(_)
TrimEach(items) ==
    IF items = <<>> THEN <<>> ELSE <<Trim(Head(items))>> \o TrimEach(Tail(items))

splitByDelimitersTrimming(s) ==
    IF Falsy(s) THEN <<>>
    ELSE TrimEach(SelectSeq(SplitAt(s, 1, 1, <<>>), NotBlank))

splitByDelimiters(s) ==
    IF Falsy(s) THEN <<>>
    ELSE SelectSeq(SplitAt(s, 1, 1, <<>>), NotBlank)

-----------------------------------------------------------------------------
(* matchField                                                               *)

AndMarker == <<"A", "N", "D", ":">>

\* String.prototype.startsWith
StartsWith(s, prefix) ==
    Len(s) >= Len(prefix) /\ SubSeq(s, 1, Len(prefix)) = prefix

\* String.prototype.split("|"): p is the start of the value being read, q the
\* position scanned, acc the values so far; "" gives the one value ""
RECURSIVE SplitOnPipe(_, _, _, _)
SplitOnPipe(s, p, q, acc) ==
    IF q > Len(s) THEN Append(acc, SubSeq(s, p, Len(s)))
    ELSE IF s[q] = Pipe
         THEN SplitOnPipe(s, q + 1, q + 1, Append(acc, SubSeq(s, p, q - 1)))
         ELSE SplitOnPipe(s, p, q + 1, acc)

\* matchField as it would be if the AND branch used some() like the OR branch
matchFieldAndAsSome(fv, flt) ==
    IF Falsy(flt) \/ Falsy(fv) THEN Falsy(flt)
    ELSE LET fieldValues == splitByDelimiters(fv)
             filterValues ==
                 IF StartsWith(flt, AndMarker)
                 THEN SplitOnPipe(SubSeq(flt, 5, Len(flt)), 1, 1, <<>>)
                 ELSE SplitOnPipe(flt, 1, 1, <<>>)
         IN  \E i \in DOMAIN filterValues : Includes(fieldValues, filterValues[i])

matchField(fv, flt) ==
    IF Falsy(flt) \/ Falsy(fv) THEN Falsy(flt)
    ELSE LET fieldValues == splitByDelimiters(fv)
         IN  IF StartsWith(flt, AndMarker)
             THEN LET filterValues == SplitOnPipe(SubSeq(flt, 5, Len(flt)), 1, 1, <<>>)
                  IN  \A i \in DOMAIN filterValues :
                          Includes(fieldValues, filterValues[i])
             ELSE LET filterValues == SplitOnPipe(flt, 1, 1, <<>>)
                  IN  \E i \in DOMAIN filterValues :
                          Includes(fieldValues, filterValues[i])

-----------------------------------------------------------------------------
(* calculateConnections                                                     *)

FieldWeight == 3
ThemeWeight == 2
KeywordWeight == 1
KeytechnologyWeight == 1

\* AddMatches as it would be if a token scored once per occurrence in the
\* other list instead of once per membership
RECURSIVE AddMatchesCountingOccurrences(_, _, _, _)
AddMatchesCountingOccurrences(tokens, otherTokens, weight, score) ==
    IF tokens = <<>> THEN score
    ELSE AddMatchesCountingOccurrences(Tail(tokens), otherTokens, weight,
             score + weight * Cardinality({i \in DOMAIN otherTokens :
                                             otherTokens[i] = Head(tokens)}))

\* tokens.forEach(token => { if (token && otherTokens.includes(token))
\* score += weight }), from the running score
RECURSIVE AddMatches(_, _, _, _)
AddMatches(tokens, otherTokens, weight, score) ==
    IF tokens = <<>> THEN score
    ELSE AddMatches(Tail(tokens), otherTokens, weight,
                    IF Head(tokens) # <<>> /\ Includes(otherTokens, Head(tokens))
                    THEN score + weight
                    ELSE score)

\* PairScore with the weights of field and theme exchanged
PairScoreSwappedWeights(researcher, otherResearcher) ==
    LET afterFields == AddMatches(splitByDelimiters(researcher.field),
                                  splitByDelimiters(otherResearcher.field), ThemeWeight, 0)
        afterThemes == AddMatches(splitByDelimiters(researcher.theme),
                                  splitByDelimiters(otherResearcher.theme), FieldWeight,
                                  afterFields)
        afterKeywords == AddMatches(splitByDelimiters(researcher.keywords),
                                    splitByDelimiters(otherResearcher.keywords),
                                    KeywordWeight, afterThemes)
    IN  AddMatches(splitByDelimiters(researcher.keytechnology),
                   splitByDelimiters(otherResearcher.keytechnology),
                   KeytechnologyWeight, afterKeywords)

\* PairScore with the removed program block still in place (one point each)
PairScoreWithProgram(researcher, otherResearcher) ==
    LET afterFields == AddMatches(splitByDelimiters(researcher.field),
                                  splitByDelimiters(otherResearcher.field), FieldWeight, 0)
        afterThemes == AddMatches(splitByDelimiters(researcher.theme),
                                  splitByDelimiters(otherResearcher.theme), ThemeWeight,
                                  afterFields)
        afterPrograms == AddMatches(splitByDelimiters(researcher.program),
                                    splitByDelimiters(otherResearcher.program), 1,
                                    afterThemes)
        afterKeywords == AddMatches(splitByDelimiters(researcher.keywords),
                                    splitByDelimiters(otherResearcher.keywords),
                                    KeywordWeight, afterPrograms)
    IN  AddMatches(splitByDelimiters(researcher.keytechnology),
                   splitByDelimiters(otherResearcher.keytechnology),
                   KeytechnologyWeight, afterKeywords)

\* PairScore with the field test made against the researcher's own fields
PairScoreOwnFields(researcher, otherResearcher) ==
    LET afterFields == AddMatches(splitByDelimiters(researcher.field),
                                  splitByDelimiters(researcher.field), FieldWeight, 0)
        afterThemes == AddMatches(splitByDelimiters(researcher.theme),
                                  splitByDelimiters(otherResearcher.theme), ThemeWeight,
                                  afterFields)
        afterKeywords == AddMatches(splitByDelimiters(researcher.keywords),
                                    splitByDelimiters(otherResearcher.keywords),
                                    KeywordWeight, afterThemes)
    IN  AddMatches(splitByDelimiters(researcher.keytechnology),
                   splitByDelimiters(otherResearcher.keytechnology),
                   KeytechnologyWeight, afterKeywords)

\* the score of otherResearcher as computed in researcher's pass
PairScore(researcher, otherResearcher) ==
    LET keywords == splitByDelimiters(researcher.keywords)
        keytechnology == splitByDelimiters(researcher.keytechnology)
        fields == splitByDelimiters(researcher.field)
        themes == splitByDelimiters(researcher.theme)
        otherKeywords == splitByDelimiters(otherResearcher.keywords)
        otherKeytechnology == splitByDelimiters(otherResearcher.keytechnology)
        otherFields == splitByDelimiters(otherResearcher.field)
        otherThemes == splitByDelimiters(otherResearcher.theme)
        afterFields == AddMatches(fields, otherFields, FieldWeight, 0)
        afterThemes == AddMatches(themes, otherThemes, ThemeWeight, afterFields)
        afterKeywords == AddMatches(keywords, otherKeywords, KeywordWeight, afterThemes)
    IN  AddMatches(keytechnology, otherKeytechnology, KeytechnologyWeight, afterKeywords)

\* the inner loop without the test that skips the researcher itself
RECURSIVE CollectConnectionsWithSelf(_, _, _, _)
CollectConnectionsWithSelf(rs, researcher, k, connections) ==
    IF k > Len(rs) THEN connections
    ELSE LET score == PairScore(researcher, rs[k])
         IN  CollectConnectionsWithSelf(rs, researcher, k + 1,
                 IF score > 0
                 THEN Append(connections, [id |-> rs[k].id, score |-> score])
                 ELSE connections)

\* the inner loop with the threshold score > 1 instead of score > 0
RECURSIVE CollectConnectionsAboveOne(_, _, _, _)
CollectConnectionsAboveOne(rs, researcher, k, connections) ==
    IF k > Len(rs) THEN connections
    ELSE IF researcher.id = rs[k].id
         THEN CollectConnectionsAboveOne(rs, researcher, k + 1, connections)
         ELSE LET score == PairScore(researcher, rs[k])
              IN  CollectConnectionsAboveOne(rs, researcher, k + 1,
                      IF score > 1
                      THEN Append(connections, [id |-> rs[k].id, score |-> score])
                      ELSE connections)

\* the inner researchers.forEach(otherResearcher => ...), from index k on
RECURSIVE CollectConnections(_, _, _, _)
CollectConnections(rs, researcher, k, connections) ==
    IF k > Len(rs) THEN connections
    ELSE IF researcher.id = rs[k].id
         THEN CollectConnections(rs, researcher, k + 1, connections)
         ELSE LET score == PairScore(researcher, rs[k])
              IN  CollectConnections(rs, researcher, k + 1,
                      IF score > 0
                      THEN Append(connections, [id |-> rs[k].id, score |-> score])
                      ELSE connections)

\* one step of the stable sort: c goes after every entry that the comparator
\* (a, b) => b.score - a.score does not put behind it
RECURSIVE InsertByScore(_, _)
InsertByScore(sorted, c) ==
    IF sorted = <<>> THEN <<c>>
    ELSE IF Head(sorted).score - c.score < 0
         THEN <<c>> \o sorted
         ELSE <<Head(sorted)>> \o InsertByScore(Tail(sorted), c)

RECURSIVE SortFrom(_, _, _)
SortFrom(connections, k, sorted) ==
    IF k > Len(connections) THEN sorted
    ELSE SortFrom(connections, k + 1, InsertByScore(sorted, connections[k]))

\* the sort with the comparator (a, b) => a.score - b.score
RECURSIVE InsertAscending(_, _)
InsertAscending(sorted, c) ==
    IF sorted = <<>> THEN <<c>>
    ELSE IF c.score - Head(sorted).score < 0
         THEN <<c>> \o sorted
         ELSE <<Head(sorted)>> \o InsertAscending(Tail(sorted), c)

RECURSIVE SortAscendingFrom(_, _, _)
SortAscendingFrom(connections, k, sorted) ==
    IF k > Len(connections) THEN sorted
    ELSE SortAscendingFrom(connections, k + 1, InsertAscending(sorted, connections[k]))

SortConnectionsAscending(connections) == SortAscendingFrom(connections, 1, <<>>)

\* connections.sort((a, b) => b.score - a.score), a stable sort
SortConnections(connections) == SortFrom(connections, 1, <<>>)

calculateConnections(rs) ==
    [i \in DOMAIN rs |->
        [rs[i] EXCEPT !.connections =
            SortConnections(CollectConnections(rs, rs[i], 1, <<>>))]]

-----------------------------------------------------------------------------
(* Values that are not strings, and the TypeError of a method call on them  *)

\* a cell that Papa.parse with dynamicTyping turned into a number
Number == <<"number">>

IsString(v) == v # Undefined /\ v # Number

\* v.split(...), v.toLowerCase(), v.startsWith(...) raise a TypeError on a
\* value that is not a string
MethodThrows(v) == ~IsString(v)

\* splitByDelimiters without the test of line 50
splitByDelimitersThrowsUnguarded(s) == MethodThrows(s)

\* whether splitByDelimiters(s) raises: it returns before str.split on a falsy s
splitByDelimitersThrows(s) == ~Falsy(s) /\ MethodThrows(s)

\* whether calculateConnections(rs) raises: every record is split in the
\* outer pass, program included
calculateConnectionsThrows(rs) ==
    \E i \in DOMAIN rs :
        \/ splitByDelimitersThrows(rs[i].keywords)
        \/ splitByDelimitersThrows(rs[i].keytechnology)
        \/ splitByDelimitersThrows(rs[i].field)
        \/ splitByDelimitersThrows(rs[i].theme)
        \/ splitByDelimitersThrows(rs[i].program)

-----------------------------------------------------------------------------
(* filterResearchers                                                        *)

LowerChar(c) ==
    CASE c = "K" -> "k"
      [] c = "Z" -> "z"
      [] c = "X" -> "x"
      [] OTHER -> c

\* String.prototype.toLowerCase
toLowerCase(s) == [i \in DOMAIN s |-> LowerChar(s[i])]

\* String.prototype.includes: sub is looked for at position k, then k + 1, ...
RECURSIVE IncludesFrom(_, _, _)
IncludesFrom(s, sub, k) ==
    IF k + Len(sub) - 1 > Len(s) THEN FALSE
    ELSE IF SubSeq(s, k, k + Len(sub) - 1) = sub THEN TRUE
    ELSE IncludesFrom(s, sub, k + 1)

StringIncludes(s, sub) == IncludesFrom(s, sub, 1)

\* filters.key: undefined when the mapping has no such key
Criterion(f, key) == IF key \in DOMAIN f THEN f[key] ELSE Undefined

\* a || b
OrElse(a, b) == IF Falsy(a) THEN b ELSE a

\* filters.theme || filters.affiliation || ""
SearchTextOf(f) ==
    OrElse(OrElse(Criterion(f, "theme"), Criterion(f, "affiliation")), <<>>)

\* the condition as it would be if it tested the keys, not their values
TextSearchActiveOnKeys(f) ==
    "theme" \in DOMAIN f \/ "affiliation" \in DOMAIN f

\* filters.theme || filters.affiliation, as a condition
TextSearchActive(f) ==
    ~Falsy(Criterion(f, "theme")) \/ ~Falsy(Criterion(f, "affiliation"))

\* value && value.toLowerCase().includes(searchText.toLowerCase())
ClauseMatches(value, q) ==
    ~Falsy(value) /\ StringIncludes(toLowerCase(value), toLowerCase(q))

ClauseThrows(value, q) ==
    ~Falsy(value) /\ (MethodThrows(value) \/ MethodThrows(q))

\* the free-text match against the theme split into tags, not the raw theme
TextMatchOnThemeTags(r, f) ==
    LET q == SearchTextOf(f)
        themes == splitByDelimiters(r.theme)
    IN  \/ ClauseMatches(r.name, q)
        \/ \E i \in DOMAIN themes : toLowerCase(themes[i]) = toLowerCase(q)
        \/ ClauseMatches(r.affiliation, q)

TextMatch(r, f) ==
    LET q == SearchTextOf(f)
    IN  \/ ClauseMatches(r.name, q)
        \/ ClauseMatches(r.theme, q)
        \/ ClauseMatches(r.affiliation, q)

TextMatchThrows(r, f) ==
    LET q == SearchTextOf(f)
    IN  \/ ClauseThrows(r.name, q)
        \/ /\ ~ClauseMatches(r.name, q)
           /\ \/ ClauseThrows(r.theme, q)
              \/ /\ ~ClauseMatches(r.theme, q)
                 /\ ClauseThrows(r.affiliation, q)

\* whether matchField(fv, flt) raises
matchFieldThrows(fv, flt) ==
    /\ ~(Falsy(flt) \/ Falsy(fv))
    /\ (splitByDelimitersThrows(fv) \/ MethodThrows(flt))

\* the four attribute tests in the order of the code: the attribute of the
\* record and the criterion it is held against
AttributeChecks(r, f) ==
    << <<r.field, Criterion(f, "field")>>,
       <<r.keywords, Criterion(f, "keyword")>>,
       <<r.keytechnology, Criterion(f, "keytechnology")>>,
       <<r.program, Criterion(f, "program")>> >>

\* if (criterion && !matchField(attribute, criterion)) return false, in turn
RECURSIVE ChecksPass(_)
ChecksPass(checks) ==
    IF checks = <<>> THEN TRUE
    ELSE LET fv == Head(checks)[1]
             flt == Head(checks)[2]
         IN  IF Falsy(flt) THEN ChecksPass(Tail(checks))
             ELSE matchField(fv, flt) /\ ChecksPass(Tail(checks))

RECURSIVE ChecksThrow(_)
ChecksThrow(checks) ==
    IF checks = <<>> THEN FALSE
    ELSE LET fv == Head(checks)[1]
             flt == Head(checks)[2]
         IN  IF Falsy(flt) THEN ChecksThrow(Tail(checks))
             ELSE \/ matchFieldThrows(fv, flt)
                  \/ matchField(fv, flt) /\ ChecksThrow(Tail(checks))

\* the callback of researchers.filter with only the first attribute test
KeepsResearcherFieldOnly(r, f) ==
    /\ (TextSearchActive(f) => TextMatch(r, f))
    /\ ChecksPass(SubSeq(AttributeChecks(r, f), 1, 1))

\* the callback of researchers.filter
KeepsResearcher(r, f) ==
    /\ (TextSearchActive(f) => TextMatch(r, f))
    /\ ChecksPass(AttributeChecks(r, f))

KeepThrows(r, f) ==
    \/ TextSearchActive(f) /\ TextMatchThrows(r, f)
    \/ /\ (TextSearchActive(f) => TextMatch(r, f))
       /\ ChecksThrow(AttributeChecks(r, f))

\* Array.prototype.filter, as the positions kept: position k on, acc so far
RECURSIVE KeptFrom(_, _, _, _)
KeptFrom(rs, f, k, acc) ==
    IF k > Len(rs) THEN acc
    ELSE KeptFrom(rs, f, k + 1,
                  IF KeepsResearcher(rs[k], f) THEN Append(acc, k) ELSE acc)

\* the positions kept by a loop that stops one record short
KeptPositionsSkippingLast(rs, f) ==
    IF DOMAIN f = {} THEN [k \in 1..Len(rs) |-> k]
    ELSE KeptFrom(SubSeq(rs, 1, Len(rs) - 1), f, 1, <<>>)

\* the positions in rs of the records filterResearchers(rs, f) returns:
\* all of them when Object.keys(filters).length === 0
KeptPositions(rs, f) ==
    IF DOMAIN f = {} THEN [k \in 1..Len(rs) |-> k]
    ELSE KeptFrom(rs, f, 1, <<>>)

filterResearchers(rs, f) ==
    LET kept == KeptPositions(rs, f)
    IN  [k \in 1..Len(kept) |-> rs[kept[k]]]

filterResearchersThrows(rs, f) ==
    DOMAIN f # {} /\ \E i \in DOMAIN rs : KeepThrows(rs[i], f)

-----------------------------------------------------------------------------
(* Home: loadResearchersData, handleSelectResearcher, handleFilterChange,   *)
(* and the links NetworkVisualization builds.                               *)
(*                                                                          *)
(* The records are objects shared by the researchers, filteredResearchers   *)
(* and relatedResearchers states: the last two are kept as positions in     *)
(* researchers, so that a write to a record through one of them is seen     *)
(* through the others.  A record at a position above built has              *)
(* connections === undefined.                                               *)

\* onSelectResearcher(""): the id of no record, and falsy
EmptyId == 0

\* connection.score >= 2
LinkThreshold == 2

\* useState<string | null>(null)
Null == <<>>

\* selectedResearcherId as a condition
Truthy(selected) == selected # Null /\ selected # <<EmptyId>>

\* the catch of loadResearchersData keeping the rows it had parsed
LoadFailureResultRows(rows) == rows

\* catch (error) { ...; return []; }
LoadFailureResult(rows) == <<>>

\* the outer forEach taken to be over after its first record
BuildCompleteAfterFirst(rs, n) == n >= 1 \/ n = Len(rs)

\* the outer forEach of calculateConnections has visited every record
BuildComplete(rs, n) == n = Len(rs)

AllPositions(rs) == [k \in 1..Len(rs) |-> k]

IdsAt(rs, positions) == {rs[positions[k]].id : k \in DOMAIN positions}

\* list.find(r => r.id === id) over the records at positions, from the k-th
\* on: <<>> for undefined, else the position of the record found
RECURSIVE FindFrom(_, _, _, _)
FindFrom(rs, positions, id, k) ==
    IF k > Len(positions) THEN <<>>
    ELSE IF rs[positions[k]].id = id THEN <<positions[k]>>
    ELSE FindFrom(rs, positions, id, k + 1)

Find(rs, positions, id) == FindFrom(rs, positions, id, 1)

\* the sort of handleSelectResearcher turned ascending
SortSelectedAscending(connections) == SortAscendingFrom(connections, 1, <<>>)

\* selectedResearcher.connections.sort((a, b) => b.score - a.score)
SortSelected(connections) == SortFrom(connections, 1, <<>>)

\* relatedIds.map(id => filteredResearchers.find(...)).filter(r => r !== undefined)
RECURSIVE RelatedFrom(_, _, _, _)
RelatedFrom(rs, positions, connections, k) ==
    IF k > Len(connections) THEN <<>>
    ELSE Find(rs, positions, connections[k].id)
             \o RelatedFrom(rs, positions, connections, k + 1)

\* handleSelectResearcher(id), run in a render whose filteredResearchers is
\* positions: what it leaves in the records and what it sets
handleSelectResearcher(rs, positions, id, n) ==
    LET found == Find(rs, positions, id)
    IN  IF found = <<>> \/ found[1] > n
        THEN [researchers |-> rs,
              selectedResearcherId |-> <<id>>,
              relatedResearchers |-> <<>>]
        ELSE LET sorted == SortSelected(rs[found[1]].connections)
                 after == [rs EXCEPT ![found[1]].connections = sorted]
             IN  [researchers |-> after,
                  selectedResearcherId |-> <<id>>,
                  relatedResearchers |-> RelatedFrom(after, positions, sorted, 1)]

\* handleFilterChange without the branch that clears the selection
handleFilterChangeKeepingSelection(rs, positions, selected, related, f, n) ==
    [researchers |-> rs,
     filteredResearchers |-> KeptPositions(rs, f),
     selectedResearcherId |-> selected,
     relatedResearchers |-> related]

\* handleFilterChange(f), run in a render whose states are rs, positions,
\* selected and related: handleSelectResearcher is the one of that render,
\* and reads the filteredResearchers of that render
handleFilterChange(rs, positions, selected, related, f, n) ==
    LET filtered == KeptPositions(rs, f)
    IN  IF Truthy(selected) /\ selected[1] \notin IdsAt(rs, filtered)
        THEN [researchers |-> rs,
              filteredResearchers |-> filtered,
              selectedResearcherId |-> Null,
              relatedResearchers |-> <<>>]
        ELSE IF Truthy(selected)
        THEN LET set == handleSelectResearcher(rs, positions, selected[1], n)
             IN  [researchers |-> set.researchers,
                  filteredResearchers |-> filtered,
                  selectedResearcherId |-> set.selectedResearcherId,
                  relatedResearchers |-> set.relatedResearchers]
        ELSE [researchers |-> rs,
              filteredResearchers |-> filtered,
              selectedResearcherId |-> selected,
              relatedResearchers |-> related]

\* researcher.connections.forEach(...) without the test of the peer's id
RECURSIVE LinksOfUnrestricted(_, _, _, _)
LinksOfUnrestricted(r, visibleResearcherIds, k, acc) ==
    IF k > Len(r.connections) THEN acc
    ELSE LET connection == r.connections[k]
         IN  LinksOfUnrestricted(r, visibleResearcherIds, k + 1,
                 IF connection.score >= LinkThreshold
                 THEN Append(acc, [source |-> r.id, target |-> connection.id,
                                   value |-> connection.score])
                 ELSE acc)

\* researcher.connections.forEach(connection => ... links.push(...))
RECURSIVE LinksOf(_, _, _, _)
LinksOf(r, visibleResearcherIds, k, acc) ==
    IF k > Len(r.connections) THEN acc
    ELSE LET connection == r.connections[k]
         IN  LinksOf(r, visibleResearcherIds, k + 1,
                 IF /\ connection.score >= LinkThreshold
                    /\ connection.id \in visibleResearcherIds
                 THEN Append(acc, [source |-> r.id, target |-> connection.id,
                                   value |-> connection.score])
                 ELSE acc)

\* researchers.forEach(researcher => ...) of the drawing effect, over the
\* researchers prop (the records at positions), from the k-th on
RECURSIVE LinksFrom(_, _, _, _, _)
LinksFrom(rs, positions, n, k, acc) ==
    IF k > Len(positions) THEN acc
    ELSE LET r == rs[positions[k]]
         IN  LinksFrom(rs, positions, n, k + 1,
                 IF positions[k] <= n /\ r.id \in IdsAt(rs, positions)
                 THEN LinksOf(r, IdsAt(rs, positions), 1, acc)
                 ELSE acc)

\* c.score >= 2 of the count
CountThreshold == 2

\* ... / 2: counted in both directions
CountDivisor == 2

\* researcher.connections?.filter(c => c.score >= 2).length || 0
RECURSIVE StrongFrom(_, _)
StrongFrom(connections, k) ==
    IF k > Len(connections) THEN 0
    ELSE (IF connections[k].score >= CountThreshold THEN 1 ELSE 0)
             + StrongFrom(connections, k + 1)

\* researchers.reduce((count, researcher) => count + ..., 0) over the
\* researchers prop, from the k-th on
RECURSIVE ReduceFrom(_, _, _, _, _)
ReduceFrom(rs, positions, n, k, count) ==
    IF k > Len(positions) THEN count
    ELSE ReduceFrom(rs, positions, n, k + 1,
             count + (IF positions[k] <= n
                      THEN StrongFrom(rs[positions[k]].connections, 1)
                      ELSE 0))

\* connectionCount: the reduce over 2, kept as a fraction
RenderedCount(rs, positions, n) ==
    IF positions = <<>> THEN <<>>
    ELSE <<ReduceFrom(rs, positions, n, 1, 0), CountDivisor>>

\* what is drawn after a render of Home: NetworkVisualization is mounted
\* unless isLoading or hasNoResults
RenderedLinks(rs, positions, n) ==
    IF positions = <<>> THEN <<>> ELSE LinksFrom(rs, positions, n, 1, <<>>)

-----------------------------------------------------------------------------
(* FilterPanel: the criteria it notifies                                    *)

PanelKeys == {"field", "keyword", "keytechnology", "program"}

\* the attribute of the record behind each heading
AttributeName(key) == IF key = "keyword" THEN "keywords" ELSE key

\* getUniqueValues(researchers, attribute), before Array.from(values).sort():
\* the Set of the trimmed tokens of the cells that are strings
UniqueValues(rs, attribute) ==
    UNION {LET items == splitByDelimiters(rs[i][attribute])
           IN  {Trim(items[k]) : k \in {d \in DOMAIN items : items[d] # <<>>}} :
           i \in {j \in DOMAIN rs : IsString(rs[j][attribute])}}

\* ["", ...getUniqueValues(researchers, attribute)].filter(v => v.trim() !== "")
OptionValues(rs, attribute) ==
    {v \in {<<>>} \cup UniqueValues(rs, attribute) : Trim(v) # <<>>}

\* Array.prototype.join("|"): acc is the string so far, k the next element
RECURSIVE JoinFrom(_, _, _)
JoinFrom(selected, k, acc) ==
    IF k > Len(selected) THEN acc
    ELSE JoinFrom(selected, k + 1,
                  IF k = 1 THEN selected[k] ELSE acc \o <<Pipe>> \o selected[k])

JoinPipe(selected) == JoinFrom(selected, 1, <<>>)

\* fieldValue, keywordValue, keytechnologyValue, programValue
LegacyValue(selected, mode) ==
    IF Len(selected) > 0
    THEN (IF mode = "AND" THEN AndMarker \o JoinPipe(selected) ELSE JoinPipe(selected))
    ELSE <<>>

\* convertToLegacyFilter()
convertToLegacyFilter(selections, modes, text) ==
    [key \in PanelKeys \cup (IF text # <<>> THEN {"theme", "affiliation"} ELSE {}) |->
        IF key \in PanelKeys THEN LegacyValue(selections[key], modes[key]) ELSE text]

\* the notification without the removal of the empty values
CleanFiltersKeepingEmpty(legacyFilters) == legacyFilters

\* Object.fromEntries(Object.entries(legacyFilters).filter(([_, v]) => v !== ""))
CleanFilters(legacyFilters) ==
    [key \in {k \in DOMAIN legacyFilters : legacyFilters[k] # <<>>} |->
        legacyFilters[key]]

\* what the effect passes to onFilterChange
NotifiedFilters(selections, modes, text) ==
    CleanFilters(convertToLegacyFilter(selections, modes, text))

\* current.filter(item => item !== option)
RECURSIVE Without(_, _)
Without(current, option) ==
    IF current = <<>> THEN <<>>
    ELSE (IF Head(current) = option THEN <<>> ELSE <<Head(current)>>)
             \o Without(Tail(current), option)

\* the updater of handleMultiFilterChange
ToggleOption(current, option) ==
    IF Includes(current, option) THEN Without(current, option)
    ELSE Append(current, option)

-----------------------------------------------------------------------------
(* Inputs of the splitByDelimiters run                                      *)

MaxStrLen == 6

SplitAlphabet == {"A", "b", Comma, WideComma, Space}

RECURSIVE StringsUpTo(_, _)
StringsUpTo(alphabet, n) ==
    IF n = 0 THEN {<<>>}
    ELSE LET shorter == StringsUpTo(alphabet, n - 1)
         IN  shorter \cup {Append(s, c) : s \in {t \in shorter : Len(t) = n - 1}, c \in alphabet}

SplitInputs == StringsUpTo(SplitAlphabet, MaxStrLen) \cup {Undefined}

IdleSplit == str = Undefined
IdleMatch == fieldValue = Undefined /\ filterValue = Undefined
IdleConnections == researchers = <<>>
IdleFilter == filters = <<>> /\ threw = FALSE
IdleHome ==
    /\ data = <<>>
    /\ built = 0
    /\ filteredResearchers = <<>>
    /\ selectedResearcherId = <<>>
    /\ relatedResearchers = <<>>
    /\ isLoading = FALSE
    /\ links = <<>>
    /\ connectionCount = <<>>
IdlePanel == multiFilters = <<>> /\ filterModes = <<>> /\ searchText = <<>>

InitSplit ==
    /\ pc = "start"
    /\ str \in SplitInputs
    /\ result = NoResult
    /\ IdleMatch
    /\ IdleConnections
    /\ IdleFilter /\ IdleHome /\ IdlePanel

CallSplitByDelimiters ==
    /\ pc = "start"
    /\ result' = splitByDelimiters(str)
    /\ pc' = "done"
    /\ UNCHANGED <<researchers, callVars, filterVars, homeVars, panelVars>>

NextSplit == CallSplitByDelimiters

SpecSplit == InitSplit /\ [][NextSplit]_vars

-----------------------------------------------------------------------------
(* Inputs of the matchField run                                             *)

MaxFieldLen == 3
MaxExprLen == 3

FieldAlphabet == {"x", "X", Comma, Space}
ExprAlphabet == {"x", "X", Pipe}
ExprPrefixes == {<<>>, AndMarker, <<"A", "N", "D">>}

FieldInputs == StringsUpTo(FieldAlphabet, MaxFieldLen) \cup {Undefined}
ExprInputs ==
    {prefix \o body : prefix \in ExprPrefixes,
                       body \in StringsUpTo(ExprAlphabet, MaxExprLen)}
        \cup {Undefined}

InitMatch ==
    /\ pc = "start"
    /\ fieldValue \in FieldInputs
    /\ filterValue \in ExprInputs
    /\ result = NoResult
    /\ IdleSplit
    /\ IdleConnections
    /\ IdleFilter /\ IdleHome /\ IdlePanel

CallMatchField ==
    /\ pc = "start"
    /\ result' = matchField(fieldValue, filterValue)
    /\ pc' = "done"
    /\ UNCHANGED <<researchers, callVars, filterVars, homeVars, panelVars>>

NextMatch == CallMatchField

SpecMatch == InitMatch /\ [][NextMatch]_vars

-----------------------------------------------------------------------------
(* Inputs of the calculateConnections run                                   *)

MaxRecords == 3

\* a parsed row: the attributes of a Researcher before any pass
Row(field, theme, keywords, keytechnology, program) ==
    [name |-> <<"n">>, affiliation |-> <<"a">>, program |-> program,
     theme |-> theme, field |-> field, keywords |-> keywords,
     keytechnology |-> keytechnology]

Rows ==
    { Row(<<>>, <<>>, <<>>, <<>>, <<>>),
      Row(<<"x">>, <<>>, <<>>, <<>>, <<"p">>),
      Row(<<"y">>, <<>>, <<>>, <<>>, <<"p">>),
      Row(<<"x", Comma, "y">>, <<>>, <<>>, <<>>, <<"q">>),
      Row(<<"x", Comma, "x">>, <<>>, <<>>, <<>>, <<"p">>),
      Row(<<"x">>, <<>>, <<"x">>, <<>>, <<"p">>),
      Row(<<>>, <<>>, <<"x">>, <<>>, <<"p", Comma, "q">>),
      Row(<<>>, <<>>, <<"y", Comma, Space, "x", WideComma, "x">>, <<>>, <<"p">>),
      Row(<<>>, <<"x">>, <<>>, <<>>, <<"p">>),
      Row(<<>>, <<"x", WideComma, "x">>, <<>>, <<"y">>, <<"q">>),
      Row(<<>>, <<>>, <<>>, <<"y", Comma, "y">>, <<>>),
      Row(Undefined, Undefined, <<"x", Space, Comma, "y">>, Undefined, <<"p">>) }

\* the ids of n rows: pairwise distinct, and not in the order of the rows
IdsOf(n) == [i \in 1..n |-> n + 1 - i]

\* a row as a Researcher that has not been through calculateConnections
AsResearcher(row, id) ==
    [id |-> id, name |-> row.name, affiliation |-> row.affiliation,
     program |-> row.program, theme |-> row.theme, field |-> row.field,
     keywords |-> row.keywords, keytechnology |-> row.keytechnology,
     connections |-> Undefined]

RecordSets ==
    UNION {{[i \in 1..n |-> AsResearcher(rows[i], IdsOf(n)[i])] :
                rows \in [1..n -> Rows]} : n \in 0..MaxRecords}

InitConnections ==
    /\ pc = "start"
    /\ researchers \in RecordSets
    /\ result = NoResult
    /\ IdleSplit
    /\ IdleMatch
    /\ IdleFilter /\ IdleHome /\ IdlePanel

CallCalculateConnections ==
    /\ pc = "start"
    /\ researchers' = calculateConnections(researchers)
    /\ pc' = "done"
    /\ UNCHANGED <<result, callVars, filterVars, homeVars, panelVars>>

NextConnections == CallCalculateConnections

SpecConnections == InitConnections /\ [][NextConnections]_vars

-----------------------------------------------------------------------------
(* Inputs of the filterResearchers run                                      *)

MaxFilterRecords == 2
MaxPresent == 2

NamedRow(name, affiliation, theme, field, keywords, keytechnology, program) ==
    [name |-> name, affiliation |-> affiliation, program |-> program,
     theme |-> theme, field |-> field, keywords |-> keywords,
     keytechnology |-> keytechnology]

FilterRows ==
    { NamedRow(<<"K">>, <<"z">>, <<>>, <<"x">>, <<"x", Comma, "y">>, <<"x">>, <<"p">>),
      NamedRow(<<"z">>, <<"z", "k">>, <<"x">>, <<"x", Comma, "y">>, <<"y">>, <<>>,
               <<"q">>),
      NamedRow(Undefined, Undefined, <<"z", "k", WideComma, "x">>, Undefined, Undefined,
               Undefined, Undefined),
      NamedRow(<<>>, <<>>, <<>>, <<>>, <<>>, <<>>, <<>>),
      NamedRow(<<"z">>, <<>>, <<"Z">>, <<"y">>, <<"x", Space, Comma, "y">>, <<"x">>,
               <<"p", Comma, "q">>),
      NamedRow(<<"k">>, <<"K">>, <<"k">>, <<"x", Comma, "y">>, <<"x", Comma, "y">>,
               <<"x">>, <<"p">>) }

FilterRecordSets ==
    UNION {{[i \in 1..n |-> AsResearcher(rows[i], IdsOf(n)[i])] :
                rows \in [1..n -> FilterRows]} : n \in 0..MaxFilterRecords}

FilterKeys == {"field", "keyword", "keytechnology", "program", "theme", "affiliation"}

\* the expressions tried for each criterion
PresentValues(key) ==
    CASE key = "field" -> {<<"x">>, AndMarker \o <<"x", Pipe, "y">>}
      [] key = "keyword" -> {<<"x", Pipe, "y">>}
      [] key = "keytechnology" -> {<<"x">>}
      [] key = "program" -> {<<"p">>}
      [] key = "theme" -> {<<"k">>}
      [] key = "affiliation" -> {<<"k">>, <<"Z">>}

\* how a criterion without constraint is written: the key left out, the
\* empty string, or undefined
BlankStyles == {"absent", "empty", "undefined"}

CriteriaWith(present, style) ==
    IF style = "absent" THEN present
    ELSE [key \in FilterKeys |->
             IF key \in DOMAIN present THEN present[key]
             ELSE IF style = "empty" THEN <<>> ELSE Undefined]

CriteriaSet ==
    UNION {{CriteriaWith(present, style) :
                present \in {v \in [keys -> UNION {PresentValues(k) : k \in keys}] :
                                 \A k \in keys : v[k] \in PresentValues(k)},
                style \in BlankStyles} :
           keys \in {ks \in SUBSET FilterKeys : Cardinality(ks) <= MaxPresent}}

InitFilter ==
    /\ pc = "start"
    /\ researchers \in FilterRecordSets
    /\ filters \in CriteriaSet
    /\ threw = FALSE
    /\ result = NoResult
    /\ IdleSplit /\ IdleMatch /\ IdleHome /\ IdlePanel

\* the load: calculateConnections over the parsed records
FilterBuild ==
    /\ pc = "start"
    /\ threw' = calculateConnectionsThrows(researchers)
    /\ researchers' = IF threw' THEN researchers ELSE calculateConnections(researchers)
    /\ pc' = IF threw' THEN "done" ELSE "built"
    /\ UNCHANGED <<result, filters, callVars, homeVars, panelVars>>

\* filterResearchers(researchers, filters)
FilterCall ==
    /\ pc = "built"
    /\ threw' = filterResearchersThrows(researchers, filters)
    /\ result' = IF threw' THEN NoResult ELSE filterResearchers(researchers, filters)
    /\ pc' = "done"
    /\ UNCHANGED <<researchers, filters, callVars, homeVars, panelVars>>

\* filterResearchers(filtered, filters): the list just returned, filtered again
FilterAgain ==
    /\ pc = "done"
    /\ ~threw
    /\ threw' = filterResearchersThrows(result, filters)
    /\ result' = IF threw' THEN NoResult ELSE filterResearchers(result, filters)
    /\ pc' = "again"
    /\ UNCHANGED <<researchers, filters, callVars, homeVars, panelVars>>

NextFilter == FilterBuild \/ FilterCall \/ FilterAgain

SpecFilter == InitFilter /\ [][NextFilter]_vars

-----------------------------------------------------------------------------
(* The page: Home with its loader, FilterPanel's notifications and the      *)
(* clicks of NetworkVisualization and ResearcherDetailPanel                 *)

MaxHomeRecords == 3

\* rows of the file: one field shared by the first and the third, another by
\* the second and the third; a keyword shared by the first two; a row without
\* attributes; a row whose field cell is numeric
HomeRows ==
    { Row(<<"x">>, <<>>, <<"x">>, <<>>, <<"p">>),
      Row(<<"y">>, <<>>, <<"x">>, <<>>, <<"p">>),
      Row(<<"x", Comma, "y">>, <<>>, <<>>, <<>>, <<"q">>),
      Row(Undefined, Undefined, Undefined, Undefined, <<"q">>),
      Row(Number, <<>>, <<"x">>, <<>>, <<"p">>) }

HomeRecordSets ==
    UNION {{[i \in 1..n |-> AsResearcher(rows[i], IdsOf(n)[i])] :
                rows \in [1..n -> HomeRows]} : n \in 0..MaxHomeRecords}

\* criteria FilterPanel notifies
HomeCriteria ==
    { <<>>,
      [field |-> <<"x">>],
      [field |-> <<"y">>],
      [program |-> <<"q">>] }

InitHome ==
    /\ pc = "mount"
    /\ data \in HomeRecordSets
    /\ built = 0
    /\ researchers = <<>>
    /\ filteredResearchers = <<>>
    /\ selectedResearcherId = Null
    /\ relatedResearchers = <<>>
    /\ isLoading = TRUE
    /\ links = <<>>
    /\ connectionCount = <<>>
    /\ filters = <<>>
    /\ threw = FALSE
    /\ result = NoResult
    /\ IdleSplit /\ IdleMatch /\ IdlePanel

uiVars == <<researchers, filteredResearchers, selectedResearcherId, relatedResearchers,
            isLoading, links, connectionCount, filters>>

\* fetch, response.text() and Papa.parse deliver the rows
LoadParse ==
    /\ pc = "mount"
    /\ pc' = "parsed"
    /\ UNCHANGED <<data, built, threw, uiVars, result, callVars, panelVars>>

\* fetch or response.text() rejects: the catch returns
LoadFetchFails ==
    /\ pc = "mount"
    /\ threw' = TRUE
    /\ data' = LoadFailureResult(data)
    /\ pc' = "returned"
    /\ UNCHANGED <<built, uiVars, result, callVars, panelVars>>

\* one pass of the outer forEach of calculateConnections: it splits the
\* attributes of the record and of every other record, then writes the
\* connections of the record
LoadBuild ==
    /\ pc = "parsed"
    /\ ~BuildComplete(data, built)
    /\ IF calculateConnectionsThrows(data)
       THEN /\ threw' = TRUE
            /\ data' = LoadFailureResult(data)
            /\ built' = 0
            /\ pc' = "returned"
       ELSE /\ data' = [data EXCEPT ![built + 1].connections =
                            calculateConnections(data)[built + 1].connections]
            /\ built' = built + 1
            /\ UNCHANGED <<pc, threw>>
    /\ UNCHANGED <<uiVars, result, callVars, panelVars>>

\* return researchers
LoadReturn ==
    /\ pc = "parsed"
    /\ BuildComplete(data, built)
    /\ pc' = "returned"
    /\ UNCHANGED <<data, built, threw, uiVars, result, callVars, panelVars>>

\* setResearchers(data)
HomeSetResearchers ==
    /\ pc = "returned"
    /\ researchers' = data
    /\ pc' = "setResearchers"
    /\ UNCHANGED <<data, built, threw, filteredResearchers, selectedResearcherId,
                   relatedResearchers, isLoading, links, connectionCount, filters,
                   result, callVars,
                   panelVars>>

\* setFilteredResearchers(data)
HomeSetFilteredResearchers ==
    /\ pc = "setResearchers"
    /\ filteredResearchers' = AllPositions(data)
    /\ pc' = "setFilteredResearchers"
    /\ UNCHANGED <<data, built, threw, researchers, selectedResearcherId,
                   relatedResearchers, isLoading, links, connectionCount, filters,
                   result, callVars,
                   panelVars>>

\* what a handler left, and the links drawn by the render that follows
SetHome(set) ==
    /\ researchers' = set.researchers
    /\ filteredResearchers' = set.filteredResearchers
    /\ selectedResearcherId' = set.selectedResearcherId
    /\ relatedResearchers' = set.relatedResearchers
    /\ links' = RenderedLinks(set.researchers, set.filteredResearchers, built)
    /\ connectionCount' = RenderedCount(set.researchers, set.filteredResearchers, built)

\* finally { setIsLoading(false) }: the panels mount, and FilterPanel's
\* effect notifies the empty criteria
HomeFinally ==
    /\ pc = "setFilteredResearchers"
    /\ isLoading' = FALSE
    /\ filters' = <<>>
    /\ SetHome(handleFilterChange(researchers, filteredResearchers,
                                  selectedResearcherId, relatedResearchers, <<>>,
                                  built))
    /\ pc' = "ready"
    /\ UNCHANGED <<data, built, threw, result, callVars, panelVars>>

\* FilterPanel's effect: onFilterChange(cleanFilters)
HomeFilterChange ==
    /\ pc = "ready"
    /\ \E f \in HomeCriteria :
           /\ filters' = f
           /\ SetHome(handleFilterChange(researchers, filteredResearchers,
                                         selectedResearcherId, relatedResearchers,
                                         f, built))
    /\ UNCHANGED <<pc, data, built, threw, isLoading, result, callVars, panelVars>>

Selecting(id) ==
    LET set == handleSelectResearcher(researchers, filteredResearchers, id, built)
    IN  SetHome([researchers |-> set.researchers,
                 filteredResearchers |-> filteredResearchers,
                 selectedResearcherId |-> set.selectedResearcherId,
                 relatedResearchers |-> set.relatedResearchers])

\* click on a node of the drawing: onSelectResearcher(d.id)
HomeNodeClick ==
    /\ pc = "ready"
    /\ \E id \in IdsAt(researchers, filteredResearchers) : Selecting(id)
    /\ UNCHANGED <<pc, data, built, threw, isLoading, filters, result, callVars,
                   panelVars>>

\* click on the background of the drawing
HomeBackgroundClick ==
    /\ pc = "ready"
    /\ filteredResearchers # <<>>
    /\ Truthy(selectedResearcherId)
    /\ Selecting(EmptyId)
    /\ UNCHANGED <<pc, data, built, threw, isLoading, filters, result, callVars,
                   panelVars>>

\* click on a related researcher of the detail panel, which lists them when
\* the selected researcher is among the filtered ones
HomeRelatedClick ==
    /\ pc = "ready"
    /\ Truthy(selectedResearcherId)
    /\ selectedResearcherId[1] \in IdsAt(researchers, filteredResearchers)
    /\ \E id \in IdsAt(researchers, relatedResearchers) : Selecting(id)
    /\ UNCHANGED <<pc, data, built, threw, isLoading, filters, result, callVars,
                   panelVars>>

NextLoad ==
    \/ LoadParse
    \/ LoadFetchFails
    \/ LoadBuild
    \/ LoadReturn
    \/ HomeSetResearchers
    \/ HomeSetFilteredResearchers
    \/ HomeFinally

NextHome ==
    \/ NextLoad
    \/ HomeFilterChange
    \/ HomeNodeClick
    \/ HomeBackgroundClick
    \/ HomeRelatedClick

SpecHome == InitHome /\ [][NextHome]_vars

\* every step of the load moves pc or built
loadVars == <<pc, built>>

\* the load is a chain of promise continuations: each runs once the one
\* before it has settled
SpecHomeFair == SpecHome /\ WF_loadVars(NextLoad)

-----------------------------------------------------------------------------
(* FilterPanel, mounted: checkboxes, mode buttons, search box, reset        *)

MaxSearchLen == 1

\* the researchers prop: a record with two field tags, one whose field tag
\* holds a pipe, one whose field tag begins with the AND marker
PanelResearchers ==
    << AsResearcher(Row(<<"x", Comma, "y">>, <<>>, <<"x">>, <<"x">>, <<"p">>), 3),
       AsResearcher(Row(<<"x", Pipe, "y">>, <<>>, <<>>, <<>>, <<>>), 2),
       AsResearcher(Row(AndMarker \o <<"x">>, <<>>, <<>>, <<>>, <<>>), 1) >>

\* the options offered under each heading
PanelOptions(key) == OptionValues(PanelResearchers, AttributeName(key))

SearchAlphabet == {"k", Space}

SearchTexts == StringsUpTo(SearchAlphabet, MaxSearchLen)

NothingSelected == [key \in PanelKeys |-> <<>>]

InitPanel ==
    /\ pc = "mounted"
    /\ multiFilters = NothingSelected
    /\ filterModes = [key \in PanelKeys |-> "OR"]
    /\ searchText = <<>>
    /\ filters = NotifiedFilters(multiFilters, filterModes, searchText)
    /\ threw = FALSE
    /\ result = NoResult
    /\ IdleSplit /\ IdleMatch /\ IdleConnections /\ IdleHome

\* the effect that follows the render of a state change
Notify == filters' = NotifiedFilters(multiFilters', filterModes', searchText')

\* a checkbox: handleMultiFilterChange(field, option)
PanelToggle ==
    /\ pc = "mounted"
    /\ \E key \in PanelKeys : \E option \in PanelOptions(key) :
           multiFilters' = [multiFilters EXCEPT ![key] = ToggleOption(@, option)]
    /\ UNCHANGED <<filterModes, searchText>>
    /\ Notify
    /\ UNCHANGED <<pc, result, researchers, threw, callVars, homeVars>>

\* a mode button: handleModeChange(field, mode)
PanelMode ==
    /\ pc = "mounted"
    /\ \E key \in PanelKeys : \E mode \in {"OR", "AND"} :
           filterModes' = [filterModes EXCEPT ![key] = mode]
    /\ UNCHANGED <<multiFilters, searchText>>
    /\ Notify
    /\ UNCHANGED <<pc, result, researchers, threw, callVars, homeVars>>

\* the search box: setSearchText(e.target.value)
PanelSearch ==
    /\ pc = "mounted"
    /\ searchText' \in SearchTexts
    /\ UNCHANGED <<multiFilters, filterModes>>
    /\ Notify
    /\ UNCHANGED <<pc, result, researchers, threw, callVars, homeVars>>

\* the reset button: resetFilters notifies {} itself, and the effect
\* notifies again after the render
PanelReset ==
    /\ pc = "mounted"
    /\ multiFilters' = NothingSelected
    /\ searchText' = <<>>
    /\ UNCHANGED filterModes
    /\ Notify
    /\ UNCHANGED <<pc, result, researchers, threw, callVars, homeVars>>

NextPanel == PanelToggle \/ PanelMode \/ PanelSearch \/ PanelReset

SpecPanel == InitPanel /\ [][NextPanel]_vars

-----------------------------------------------------------------------------
(* One option of FilterPanel ticked, and the filtering Home does with it    *)

\* the loaded records FilterPanel and Home hold
OptionRecordSets == {calculateConnections(rs) : rs \in FilterRecordSets}

InitOptions ==
    /\ pc = "mounted"
    /\ researchers \in OptionRecordSets
    /\ filters = <<>>
    /\ threw = FALSE
    /\ result = NoResult
    /\ IdleSplit /\ IdleMatch /\ IdleHome /\ IdlePanel

\* a checkbox ticked with nothing else selected: the effect notifies the
\* criteria and handleFilterChange filters the records with them
TickOption ==
    /\ pc = "mounted"
    /\ \E key \in PanelKeys :
           \E option \in OptionValues(researchers, AttributeName(key)) :
               filters' = NotifiedFilters(
                              [NothingSelected EXCEPT ![key] = ToggleOption(@, option)],
                              [k \in PanelKeys |-> "OR"], <<>>)
    /\ result' = filterResearchers(researchers, filters')
    /\ pc' = "filtered"
    /\ UNCHANGED <<researchers, threw, callVars, homeVars, panelVars>>

NextOptions == TickOption

SpecOptions == InitOptions /\ [][NextOptions]_vars

-----------------------------------------------------------------------------
(* Claims about splitByDelimiters                                           *)

IsDelimiter(c) == c = Comma \/ c = WideComma

\* a piece of s, read off s itself: it starts at the start of s, right after
\* a wide comma, or at the first non-whitespace character after a comma and
\* the whitespace that follows it; it ends where the next delimiter starts
\* or s ends; it holds no delimiter
PieceStart(s, i) ==
    \/ i = 1
    \/ s[i - 1] = WideComma
    \/ /\ ~IsWhitespace(s[i])
       /\ \E k \in 1..(i - 1) :
              /\ s[k] = Comma
              /\ \A m \in (k + 1)..(i - 1) : IsWhitespace(s[m])

RetainedPieces(s) ==
    {sp \in (1..Len(s)) \X (1..Len(s)) :
        /\ sp[1] <= sp[2]
        /\ PieceStart(s, sp[1])
        /\ \A k \in sp[1]..sp[2] : ~IsDelimiter(s[k])
        /\ (sp[2] = Len(s) \/ IsDelimiter(s[sp[2] + 1]))
        /\ \E k \in sp[1]..sp[2] : ~IsWhitespace(s[k])}

\* C8: splitByDelimiters returns, in left-to-right order, exactly the pieces
\* between the delimiters (a comma with the whitespace after it, or a wide
\* comma) that are not blank, each as it stands in the input (untrimmed,
\* case unchanged); for "" and undefined it returns the empty sequence.
C8_SplitPieces ==
    pc = "done" =>
        IF Falsy(str) THEN result = <<>>
        ELSE LET pieces == RetainedPieces(str)
             IN  /\ Len(result) = Cardinality(pieces)
                 /\ \A sp \in pieces :
                        result[1 + Cardinality({t \in pieces : t[1] < sp[1]})]
                            = SubSeq(str, sp[1], sp[2])

\* "A, b<wide comma>A" gives <<"A", "b", "A">>
C8_Witness ==
    /\ pc = "done"
    /\ str = <<"A", Comma, Space, "b", WideComma, "A">>
    /\ result = << <<"A">>, <<"b">>, <<"A">> >>

\* a retained piece that keeps its surrounding whitespace
C8_WitnessUntrimmed ==
    /\ pc = "done"
    /\ str = <<"A", Space, Comma, "b">>
    /\ result = << <<"A", Space>>, <<"b">> >>

\* C9: no token returned by splitByDelimiters has leading or trailing
\* whitespace (every token is a non-empty trimmed substring of the input).
C9_TokensTrimmed ==
    pc = "done" =>
        \A i \in DOMAIN result : result[i] # <<>> /\ Trim(result[i]) = result[i]

-----------------------------------------------------------------------------
(* Claims about matchField                                                  *)

\* the values of an expression, read off the expression itself: the maximal
\* stretches without a pipe, the empty ones included
PipeValues(e) ==
    {SubSeq(e, sp[1], sp[2]) : sp \in
        {sp \in (1..(Len(e) + 1)) \X (0..Len(e)) :
            /\ sp[2] >= sp[1] - 1
            /\ (sp[1] = 1 \/ e[sp[1] - 1] = Pipe)
            /\ (sp[2] = Len(e) \/ e[sp[2] + 1] = Pipe)
            /\ \A k \in sp[1]..sp[2] : e[k] # Pipe}}

HasAndMarker(e) ==
    Len(e) >= 4 /\ e[1] = "A" /\ e[2] = "N" /\ e[3] = "D" /\ e[4] = ":"

TokenSet(raw) ==
    LET tokens == splitByDelimiters(raw) IN {tokens[i] : i \in DOMAIN tokens}

\* C10: for a present expression matchField is false on an empty or absent
\* attribute; otherwise an "AND:" expression matches iff every value of the
\* remainder split on '|' equals some token of the attribute, and any other
\* expression iff at least one value of it split on '|' equals some token.
C10_MatchField ==
    pc = "done" /\ ~Falsy(filterValue) =>
        IF Falsy(fieldValue) THEN result = FALSE
        ELSE IF HasAndMarker(filterValue)
             THEN result = (\A v \in PipeValues(SubSeq(filterValue, 5, Len(filterValue))) :
                               v \in TokenSet(fieldValue))
             ELSE result = (\E v \in PipeValues(filterValue) :
                               v \in TokenSet(fieldValue))

\* tokens {x, X} and AND:x|X: every required value is a token
C10_Witness ==
    /\ pc = "done"
    /\ fieldValue = <<"x", Comma, "X">>
    /\ filterValue = AndMarker \o <<"x", Pipe, "X">>
    /\ result = TRUE

-----------------------------------------------------------------------------
(* Claims about calculateConnections                                        *)

Tokens(r, attribute) ==
    CASE attribute = "field" -> splitByDelimiters(r.field)
      [] attribute = "theme" -> splitByDelimiters(r.theme)
      [] attribute = "keywords" -> splitByDelimiters(r.keywords)
      [] attribute = "keytechnology" -> splitByDelimiters(r.keytechnology)

ScoredAttributes == {"field", "theme", "keywords", "keytechnology"}

\* the number of positions of tokens whose token is a member of otherTokens
MatchCount(tokens, otherTokens) ==
    Cardinality({i \in DOMAIN tokens :
                    \E j \in DOMAIN otherTokens : otherTokens[j] = tokens[i]})

ClaimedScore(a, b) ==
    3 * MatchCount(Tokens(a, "field"), Tokens(b, "field"))
    + 2 * MatchCount(Tokens(a, "theme"), Tokens(b, "theme"))
    + 1 * MatchCount(Tokens(a, "keywords"), Tokens(b, "keywords"))
    + 1 * MatchCount(Tokens(a, "keytechnology"), Tokens(b, "keytechnology"))

\* the positions in rs[i].connections of the entries whose peer is rs[j]
Entries(rs, i, j) ==
    {k \in DOMAIN rs[i].connections : rs[i].connections[k].id = rs[j].id}

\* the score rs[i] stores for rs[j]; 0 when it stores no entry
StoredScore(rs, i, j) ==
    IF Entries(rs, i, j) = {} THEN 0
    ELSE rs[i].connections[CHOOSE k \in Entries(rs, i, j) : TRUE].score

\* the position in rs of the record with this id
PositionOf(rs, id) == CHOOSE i \in DOMAIN rs : rs[i].id = id

\* C1: after calculateConnections over records with pairwise distinct ids, no
\* connections list has an entry for the record itself, none has two entries
\* for one peer, and every score is strictly positive.
C1_NoSelfNoDuplicatePositive ==
    pc = "done" =>
        \A i \in DOMAIN researchers :
            LET c == researchers[i].connections
            IN  /\ \A k \in DOMAIN c : c[k].id # researchers[i].id /\ c[k].score > 0
                /\ \A k, l \in DOMAIN c : k # l => c[k].id # c[l].id

\* a record with tokens of its own that stores two peers
C1_Witness ==
    /\ pc = "done"
    /\ \E i \in DOMAIN researchers :
           /\ Len(researchers[i].connections) >= 2
           /\ ClaimedScore(researchers[i], researchers[i]) > 0

\* C2: the score stored for B in A's list is 3 x (A's field tokens that are
\* members of B's field tokens) + 2 x (same for theme) + 1 x (same for
\* keywords) + 1 x (same for keytechnology).
C2_ScoreComposition ==
    pc = "done" =>
        \A i, j \in DOMAIN researchers :
            \A k \in Entries(researchers, i, j) :
                researchers[i].connections[k].score
                    = ClaimedScore(researchers[i], researchers[j])

\* one shared field tag alone is stored as 3, one shared field tag and one
\* shared keywords tag as 4
C2_Witness ==
    /\ pc = "done"
    /\ \E i, j, k \in DOMAIN researchers :
           /\ researchers[i].field = <<"x">> /\ researchers[i].keywords = <<"x">>
           /\ researchers[j].field = <<"x">> /\ researchers[j].keywords = <<"x">>
           /\ researchers[k].field = <<"x">> /\ researchers[k].keywords = <<>>
           /\ i # j /\ i # k /\ j # k
           /\ StoredScore(researchers, i, j) = 4
           /\ StoredScore(researchers, i, k) = 3

\* C3: A's connections holds exactly one entry for every other record B whose
\* score is greater than 0 and none for a B whose score is 0.
C3_EdgeIffPositive ==
    pc = "done" =>
        \A i, j \in DOMAIN researchers :
            i # j =>
                Cardinality(Entries(researchers, i, j))
                    = IF ClaimedScore(researchers[i], researchers[j]) > 0 THEN 1 ELSE 0

\* a record that has one peer with a score of 1 and one peer with score 0
C3_Witness ==
    /\ pc = "done"
    /\ \E i, j, k \in DOMAIN researchers :
           /\ i # j /\ i # k
           /\ ClaimedScore(researchers[i], researchers[j]) = 1
           /\ Entries(researchers, i, j) # {}
           /\ ClaimedScore(researchers[i], researchers[k]) = 0
           /\ Entries(researchers, i, k) = {}

\* C4: every connections list is in non-increasing order of score, and entries
\* of equal score are in the order of their peers in the record sequence.
C4_SortedStable ==
    pc = "done" =>
        \A i \in DOMAIN researchers :
            LET c == researchers[i].connections
            IN  \A k, l \in DOMAIN c :
                    k < l =>
                        /\ c[k].score >= c[l].score
                        /\ (c[k].score = c[l].score =>
                                PositionOf(researchers, c[k].id)
                                    < PositionOf(researchers, c[l].id))

\* one list whose order differs from the record order, and one list with a tie
C4_Witness ==
    /\ pc = "done"
    /\ \E i \in DOMAIN researchers :
           LET c == researchers[i].connections
           IN  /\ Len(c) = 2
               /\ c[1].score > c[2].score
               /\ PositionOf(researchers, c[1].id) > PositionOf(researchers, c[2].id)
    /\ \E i \in DOMAIN researchers :
           LET c == researchers[i].connections
           IN  Len(c) = 2 /\ c[1].score = c[2].score

\* the program values tried in place of the ones the records carry
AltPrograms == {<<>>, <<"p">>}

WithPrograms(rs, alt) == [i \in DOMAIN rs |-> [rs[i] EXCEPT !.program = alt[i]]]

ConnectionsOf(rs) == [i \in DOMAIN rs |-> rs[i].connections]

TokenSetOf(r, attribute) ==
    {Tokens(r, attribute)[i] : i \in DOMAIN Tokens(r, attribute)}

NoCommonToken(a, b) ==
    \A attribute \in ScoredAttributes :
        TokenSetOf(a, attribute) \cap TokenSetOf(b, attribute) = {}

\* C5: program adds nothing to the score: two records with the same program
\* and no common token in field, theme, keywords or keytechnology store no
\* entry for each other, and running calculateConnections on the same records
\* with any other program values gives the same connections lists.
C5_ProgramExcluded ==
    pc = "done" =>
        /\ \A i, j \in DOMAIN researchers :
               (/\ i # j
                /\ researchers[i].program = researchers[j].program
                /\ NoCommonToken(researchers[i], researchers[j]))
                   => Entries(researchers, i, j) = {} /\ Entries(researchers, j, i) = {}
        /\ \A alt \in [DOMAIN researchers -> AltPrograms] :
               ConnectionsOf(calculateConnections(WithPrograms(researchers, alt)))
                   = ConnectionsOf(researchers)

\* two records with the same non-empty program, tokens of their own and no
\* token in common, next to a pair that is connected
C5_Witness ==
    /\ pc = "done"
    /\ \E i, j \in DOMAIN researchers :
           /\ i # j
           /\ researchers[i].program = researchers[j].program
           /\ splitByDelimiters(researchers[i].program) # <<>>
           /\ Tokens(researchers[i], "field") # <<>>
           /\ Tokens(researchers[j], "field") # <<>>
           /\ NoCommonToken(researchers[i], researchers[j])
           /\ Entries(researchers, i, j) = {}
    /\ \E i \in DOMAIN researchers : researchers[i].connections # <<>>

NoDuplicateToken(r) ==
    \A attribute \in ScoredAttributes :
        \A k, l \in DOMAIN Tokens(r, attribute) :
            k # l => Tokens(r, attribute)[k] # Tokens(r, attribute)[l]

\* the scores rs[i] stores for rs[j]: empty when there is no entry
StoredScores(rs, i, j) ==
    {rs[i].connections[k].score : k \in Entries(rs, i, j)}

\* C6: for two distinct records without a repeated token in any attribute,
\* the score A stores for B equals the score B stores for A, and the edge is
\* in both lists or in neither.
C6_SymmetricWithoutDuplicates ==
    pc = "done" =>
        \A i, j \in DOMAIN researchers :
            (i # j /\ NoDuplicateToken(researchers[i]) /\ NoDuplicateToken(researchers[j]))
                => StoredScores(researchers, i, j) = StoredScores(researchers, j, i)

\* two records without repeated tokens, with token lists of different length,
\* that store each other
C6_Witness ==
    /\ pc = "done"
    /\ \E i, j \in DOMAIN researchers :
           /\ i # j
           /\ NoDuplicateToken(researchers[i]) /\ NoDuplicateToken(researchers[j])
           /\ Len(Tokens(researchers[i], "field")) = 2
           /\ Len(Tokens(researchers[j], "field")) = 1
           /\ StoredScores(researchers, i, j) = {3}
           /\ StoredScores(researchers, j, i) = {3}

\* raw with every token occurring twice as often (the wide comma takes no
\* whitespace with it, so the tokens of the two halves are those of raw)
Double(raw) == IF Falsy(raw) THEN raw ELSE raw \o <<WideComma>> \o raw

Doubled(r) ==
    [r EXCEPT !.field = Double(@), !.theme = Double(@),
              !.keywords = Double(@), !.keytechnology = Double(@)]

Only(r, attribute) ==
    [r EXCEPT !.field = IF attribute = "field" THEN @ ELSE <<>>,
              !.theme = IF attribute = "theme" THEN @ ELSE <<>>,
              !.keywords = IF attribute = "keywords" THEN @ ELSE <<>>,
              !.keytechnology = IF attribute = "keytechnology" THEN @ ELSE <<>>]

ClaimedWeight(attribute) ==
    CASE attribute = "field" -> 3
      [] attribute = "theme" -> 2
      [] attribute = "keywords" -> 1
      [] attribute = "keytechnology" -> 1

\* C7: a token repeated in A's list scores once per occurrence in A's list,
\* the number of its occurrences in B's list does not change the score of
\* (A, B), and each attribute contributes at most weight x length of A's list.
C7_PerOccurrenceInOwnList ==
    pc = "done" =>
        \A i, j \in DOMAIN researchers :
            i # j =>
                LET s == StoredScore(researchers, i, j)
                    a == researchers[i]
                    b == researchers[j]
                IN  /\ StoredScore(calculateConnections(<<a, Doubled(b)>>), 1, 2) = s
                    /\ StoredScore(calculateConnections(<<Doubled(a), b>>), 1, 2) = 2 * s
                    /\ \A attribute \in ScoredAttributes :
                           StoredScore(calculateConnections(
                               <<Only(a, attribute), b>>), 1, 2)
                               <= ClaimedWeight(attribute) * Len(Tokens(a, attribute))

\* A repeats a token that B has once, and B repeats a token that A has once
C7_Witness ==
    /\ pc = "done"
    /\ \E i, j \in DOMAIN researchers :
           /\ i # j
           /\ Tokens(researchers[i], "keywords") = << <<"y">>, <<"x">>, <<"x">> >>
           /\ Tokens(researchers[j], "keywords") = << <<"x">> >>
           /\ StoredScore(researchers, i, j) = 2
           /\ StoredScore(researchers, j, i) = 1

-----------------------------------------------------------------------------
(* Claims about filterResearchers                                           *)

Filtered == pc = "done" /\ ~threw

\* a criterion that is given: neither left out, nor undefined, nor ""
Present(f, key) == key \in DOMAIN f /\ f[key] # Undefined /\ f[key] # <<>>

ResultIds == {result[k].id : k \in DOMAIN result}

\* C11: filterResearchers returns all records unchanged, in the same order,
\* whenever no criterion is given: the empty mapping, or a mapping whose
\* every value is absent or the empty string.
C11_NoCriteriaPassthrough ==
    (Filtered /\ \A key \in FilterKeys : ~Present(filters, key))
        => result = researchers

C11_Witness ==
    /\ Filtered
    /\ DOMAIN filters = FilterKeys
    /\ \A key \in FilterKeys : filters[key] = <<>>
    /\ Len(researchers) = 2
    /\ \E i \in DOMAIN researchers :
           /\ Falsy(researchers[i].name)
           /\ Falsy(researchers[i].theme)
           /\ Falsy(researchers[i].affiliation)
    /\ result = researchers

AttributeOf(key) == IF key = "keyword" THEN "keywords" ELSE key

AttributeKeys == {"field", "keyword", "keytechnology", "program"}

ClaimedKept(r, f) ==
    /\ (Present(f, "theme") \/ Present(f, "affiliation")) => TextMatch(r, f)
    /\ \A key \in AttributeKeys :
           Present(f, key) => matchField(r[AttributeOf(key)], f[key])

\* the records of rs that satisfy ClaimedKept, in the order of rs
RECURSIVE ClaimedSelection(_, _)
ClaimedSelection(rs, f) ==
    IF rs = <<>> THEN <<>>
    ELSE (IF ClaimedKept(Head(rs), f) THEN <<Head(rs)>> ELSE <<>>)
             \o ClaimedSelection(Tail(rs), f)

\* C12: filterResearchers returns exactly the records, in input order, that
\* pass the free-text check when a theme or affiliation criterion is given
\* and pass matchField for each given criterion among field, keyword (held
\* against keywords), keytechnology and program.
C12_ExactlyThePassingRecords ==
    Filtered => result = ClaimedSelection(researchers, filters)

C12_Witness ==
    /\ Filtered
    /\ Present(filters, "field")
    /\ Present(filters, "program")
    /\ Len(researchers) = 2
    /\ Len(result) = 1
    /\ \E i \in DOMAIN researchers :
           /\ researchers[i].id \notin ResultIds
           /\ matchField(researchers[i].field, filters["field"])
           /\ ~matchField(researchers[i].program, filters["program"])

ClaimedQuery(f) ==
    IF Present(f, "theme") THEN f["theme"] ELSE f["affiliation"]

\* sub occurs in s at some offset
OccursIn(sub, s) ==
    \E off \in 0..Len(s) :
        /\ off + Len(sub) <= Len(s)
        /\ \A k \in 1..Len(sub) : s[off + k] = sub[k]

ClaimedTextPass(r, f) ==
    \E key \in {"name", "theme", "affiliation"} :
        /\ r[key] # Undefined
        /\ r[key] # <<>>
        /\ OccursIn(toLowerCase(ClaimedQuery(f)), toLowerCase(r[key]))

\* C13: when a theme or affiliation criterion is given, the query is the
\* theme criterion if non-empty and otherwise the affiliation criterion, and
\* a record is kept only if the lower-cased query is a substring of its
\* lower-cased name, raw theme or affiliation; with no attribute criterion
\* given, that is also sufficient.
C13_FreeTextCheck ==
    (Filtered /\ (Present(filters, "theme") \/ Present(filters, "affiliation")))
        => \A i \in DOMAIN researchers :
               /\ researchers[i].id \in ResultIds
                      => ClaimedTextPass(researchers[i], filters)
               /\ (/\ ClaimedTextPass(researchers[i], filters)
                   /\ \A key \in AttributeKeys : ~Present(filters, key))
                      => researchers[i].id \in ResultIds

\* a record kept for the query inside a tag of its raw theme, next to a
\* record with no name, theme or affiliation, which is dropped
C13_Witness ==
    /\ Filtered
    /\ Present(filters, "theme")
    /\ Present(filters, "affiliation")
    /\ filters["theme"] # filters["affiliation"]
    /\ Len(researchers) = 2
    /\ \E i, j \in DOMAIN researchers :
           /\ researchers[i].id \in ResultIds
           /\ Falsy(researchers[i].name)
           /\ Falsy(researchers[i].affiliation)
           /\ filters["theme"] \notin
                  {splitByDelimiters(researchers[i].theme)[k] :
                       k \in DOMAIN splitByDelimiters(researchers[i].theme)}
           /\ researchers[j].id \notin ResultIds
           /\ Falsy(researchers[j].name)
           /\ Falsy(researchers[j].theme)
           /\ Falsy(researchers[j].affiliation)

\* C15: filtering the list filterResearchers returned, with the same
\* criteria, returns that list again: the records filterResearchers keeps
\* from the full set.
C15_Idempotent ==
    (pc = "again")
        => (~threw /\ result = filterResearchers(researchers, filters))

C15_Witness ==
    /\ pc = "again"
    /\ Len(researchers) = 2
    /\ Len(result) = 1

ScoredKeys == {"field", "theme", "keywords", "keytechnology"}

\* C18: on records whose attributes may be missing or empty, and criteria
\* whose values may be absent or empty, calculateConnections and
\* filterResearchers raise nothing; a record whose scored attributes are all
\* missing or empty has no edge in either direction, and a record whose
\* attribute is missing or empty fails every criterion given on it.
C18_TotalOnLooseInput ==
    /\ ~threw
    /\ (pc # "start") =>
           \A i \in DOMAIN researchers :
               (\A key \in ScoredKeys : Falsy(researchers[i][key]))
                   => /\ researchers[i].connections = <<>>
                      /\ \A j \in DOMAIN researchers :
                             \A k \in DOMAIN researchers[j].connections :
                                 researchers[j].connections[k].id # researchers[i].id
    /\ Filtered =>
           \A i \in DOMAIN researchers :
               (\E key \in AttributeKeys :
                    /\ Present(filters, key)
                    /\ Falsy(researchers[i][AttributeOf(key)]))
                   => researchers[i].id \notin ResultIds

C18_Witness ==
    /\ Filtered
    /\ Present(filters, "field")
    /\ Len(researchers) = 2
    /\ \E i, j \in DOMAIN researchers :
           /\ researchers[i].field = Undefined
           /\ researchers[i].keywords = Undefined
           /\ researchers[i].name = Undefined
           /\ researchers[i].id \notin ResultIds
           /\ researchers[j].field = <<>>
           /\ researchers[j].connections = <<>>

-----------------------------------------------------------------------------
(* Claims about the page                                                    *)

VisibleIds == IdsAt(researchers, filteredResearchers)

\* C14: once the load has written connections, filter changes, selections
\* and renders leave every record's connections list with the entries, in the
\* order, that calculateConnections writes for the record set.
C14_ConnectionsUnchanged ==
    pc = "ready" =>
        ConnectionsOf(researchers) = ConnectionsOf(calculateConnections(researchers))

\* a filter change with a researcher selected, whose list holds entries of
\* different scores and has been sorted again by the selection
C14_Witness ==
    /\ pc = "ready"
    /\ filters # <<>>
    /\ Truthy(selectedResearcherId)
    /\ relatedResearchers # <<>>
    /\ links # <<>>
    /\ \E i \in DOMAIN researchers :
           /\ researchers[i].id = selectedResearcherId[1]
           /\ Len(researchers[i].connections) >= 2
           /\ \E k, l \in DOMAIN researchers[i].connections :
                  researchers[i].connections[k].score
                      # researchers[i].connections[l].score

\* C16: every link the visualization builds has its source and its target
\* among the ids of the filtered records it was given.
C16_LinksBetweenVisible ==
    \A k \in DOMAIN links :
        /\ links[k].source \in VisibleIds
        /\ links[k].target \in VisibleIds

\* links are drawn while a visible record stores an edge of score 2 or more
\* to a record the filter excluded
C16_Witness ==
    /\ pc = "ready"
    /\ links # <<>>
    /\ \E k \in DOMAIN filteredResearchers :
           LET r == researchers[filteredResearchers[k]]
           IN  \E c \in DOMAIN r.connections :
                   /\ r.connections[c].score >= LinkThreshold
                   /\ r.connections[c].id \notin VisibleIds

\* C17: the records reach the states of Home, and the panels are mounted,
\* only after calculateConnections has written the connections of every
\* record: each list then holds an entry for every peer of positive score.
C17_BuiltBeforeVisible ==
    (~isLoading \/ researchers # <<>> \/ filteredResearchers # <<>>)
        => /\ built = Len(researchers)
           /\ \A i, j \in DOMAIN researchers :
                  (i # j /\ PairScore(researchers[i], researchers[j]) > 0)
                      => Entries(researchers, i, j) # {}

C17_Witness ==
    /\ ~isLoading
    /\ Len(researchers) = 3
    /\ built = 3
    /\ filteredResearchers # <<>>
    /\ \A i \in DOMAIN researchers : researchers[i].connections # <<>>

-----------------------------------------------------------------------------
(* Claims about FilterPanel                                                 *)

\* the options, each followed by the next after one pipe
RECURSIVE ClaimedJoined(_)
ClaimedJoined(selected) ==
    IF Len(selected) = 1 THEN Head(selected)
    ELSE Head(selected) \o <<Pipe>> \o ClaimedJoined(Tail(selected))

\* C19: in the criteria FilterPanel notifies, each of field, keyword,
\* keytechnology, program is a key iff an option of it is selected, with the
\* selected options joined by "|", after "AND:" in AND mode; theme and
\* affiliation are keys, with the search text as value, iff the search text
\* is non-empty; no value is the empty string.
C19_NotifiedShape ==
    /\ DOMAIN filters \subseteq FilterKeys
    /\ \A key \in PanelKeys :
           /\ key \in DOMAIN filters <=> multiFilters[key] # <<>>
           /\ key \in DOMAIN filters =>
                  filters[key] =
                      (IF filterModes[key] = "AND" THEN <<"A", "N", "D", ":">> ELSE <<>>)
                          \o ClaimedJoined(multiFilters[key])
    /\ \A key \in {"theme", "affiliation"} :
           /\ key \in DOMAIN filters <=> searchText # <<>>
           /\ key \in DOMAIN filters => filters[key] = searchText
    /\ \A key \in DOMAIN filters : filters[key] # <<>>
    /\ (multiFilters = NothingSelected /\ searchText = <<>>) => filters = <<>>

C19_Witness ==
    /\ Len(multiFilters["field"]) = 2
    /\ filterModes["field"] = "AND"
    /\ Len(multiFilters["keyword"]) = 1
    /\ filterModes["keyword"] = "OR"
    /\ multiFilters["program"] = <<>>
    /\ filterModes["program"] = "AND"
    /\ searchText # <<>>
    /\ DOMAIN filters = {"field", "keyword", "theme", "affiliation"}

-----------------------------------------------------------------------------
(* Claims about the selection across filter changes                         *)

NewVisibleIds == IdsAt(researchers', filteredResearchers')

Excluded == Truthy(selectedResearcherId) /\ selectedResearcherId[1] \notin NewVisibleIds

Kept == Truthy(selectedResearcherId) /\ selectedResearcherId[1] \in NewVisibleIds

\* the peers in the connections of the selected researcher that are in the
\* new filtered set, in connections order, as positions
RECURSIVE ClaimedRelated(_, _, _)
ClaimedRelated(rs, connections, visible) ==
    IF connections = <<>> THEN <<>>
    ELSE (IF Head(connections).id \in visible
          THEN <<PositionOf(rs, Head(connections).id)>> ELSE <<>>)
             \o ClaimedRelated(rs, Tail(connections), visible)

\* C22: after a filter change that keeps the selected researcher visible,
\* relatedResearchers holds the peers of the selected researcher's
\* connections that are in the new filtered set, in connections order.
C22_RelatedAgainstNewFilter ==
    [][(HomeFilterChange /\ Kept) =>
          relatedResearchers' =
              ClaimedRelated(researchers',
                  researchers'[PositionOf(researchers', selectedResearcherId[1])].connections,
                  NewVisibleIds)]_uiVars

-----------------------------------------------------------------------------
(* Claims about the options and the expressions built from them             *)

TagsOf(r, attribute) ==
    {splitByDelimiters(r[attribute])[k] : k \in DOMAIN splitByDelimiters(r[attribute])}

SelectedSet(key) == {multiFilters[key][k] : k \in DOMAIN multiFilters[key]}

\* C23: for every heading with options selected, matchField reads the
\* notified expression with the mode and the values that were selected: on
\* every record it answers whether all of them (AND) or one of them (OR) is
\* a tag of the record.
C23_ExpressionRoundTrips ==
    \A key \in PanelKeys :
        multiFilters[key] # <<>> =>
            \A i \in DOMAIN PanelResearchers :
                LET r == PanelResearchers[i]
                    tags == TagsOf(r, AttributeName(key))
                IN  matchField(r[AttributeName(key)], filters[key])
                        <=> IF filterModes[key] = "AND"
                            THEN SelectedSet(key) \subseteq tags
                            ELSE SelectedSet(key) \cap tags # {}

TickedKey == CHOOSE key \in PanelKeys : key \in DOMAIN filters

\* the records of rs with tag among the tokens of their attribute, in order
RECURSIVE Tagged(_, _, _)
Tagged(rs, attribute, tag) ==
    IF rs = <<>> THEN <<>>
    ELSE (IF tag \in TagsOf(Head(rs), attribute) THEN <<Head(rs)>> ELSE <<>>)
             \o Tagged(Tail(rs), attribute, tag)

\* C24: ticking a single option that getUniqueValues offers, in OR mode and
\* with no other criterion, yields a non-empty filtered set: exactly the
\* records whose tokenized attribute contains that tag.
C24_OptionSelectsItsRecords ==
    pc = "filtered" =>
        /\ result # <<>>
        /\ result = Tagged(researchers, AttributeName(TickedKey), filters[TickedKey])

-----------------------------------------------------------------------------
(* Claims about the count the visualization shows                           *)

LinkedPairs == {{links[k].source, links[k].target} : k \in DOMAIN links}

\* C25: the connection count shown equals the number of distinct unordered
\* pairs of visible researchers joined by a drawn link, and is half the
\* number of links built.
C25_CountIsDrawnPairs ==
    connectionCount # <<>> =>
        /\ connectionCount[1] = connectionCount[2] * Cardinality(LinkedPairs)
        /\ 2 * connectionCount[1] = connectionCount[2] * Len(links)

=============================================================================
